---- MODULE Spec2Model ----
(***************************************************************************)
(* Contact-intake pipeline of the micii-campioni site: the POST handler of *)
(* /api/contact (rate limiting, body parsing, honeypot, validation,        *)
(* sanitization, email send, conversion tracking) and the server side of   *)
(* the Facebook Conversions API client.                                    *)
(*                                                                         *)
(* Strings are sequences of one-character strings.  A JSON / JavaScript    *)
(* value is a record [t, v]: t = "undef" (absent field, undefined),        *)
(* t = "str" (v the characters) or t = "num" (a non-zero number, v its     *)
(* decimal digits).                                                        *)
(***************************************************************************)
EXTENDS Integers, Sequences, FiniteSets, TLC

\* ------------------------------------------------------------------ bounds

\* Handlers that can be in flight at once.
MaxInFlight == 2
\* Requests that are admitted in one behaviour of the traffic specification.
MaxAdmitted == 6
\* The latest reading of the clock, in milliseconds past the last one inside
\* the window of a request admitted at time 0.
MaxLate == 1
\* Requests that are admitted in one behaviour of the cleanup specification,
\* after the ones that filled the map.
MaxFresh == 3
\* The longest string of the sanitization specification.
MaxLen == 4

\* --------------------------------------------------------- program constants

RATE_LIMIT_WINDOW_MS == 900000
RATE_LIMIT_MAX == 5
CLEANUP_SIZE == 1000
MAX_NAME == 200
MAX_EMAIL == 254
MAX_PHONE == 30
MAX_MESSAGE == 5000

\* ------------------------------------------------------------------ values

Undefined == [t |-> "undef", v |-> <<>>]
Str(s) == [t |-> "str", v |-> s]
Num(s) == [t |-> "num", v |-> s]

\* JavaScript truthiness of a value: undefined and "" are falsy.
Truthy(x) == \/ x.t = "num"
             \/ x.t = "str" /\ Len(x.v) > 0

\* x.length: the number of characters of a string, undefined otherwise, and
\* `undefined > n` is false.
LengthExceeds(x, n) == x.t = "str" /\ Len(x.v) > n

Whitespace == {" ", "\t", "\n"}

Rep(c, n) == [i \in 1..n |-> c]

RECURSIVE TrimLeft(_)
TrimLeft(s) == IF s # <<>> /\ Head(s) \in Whitespace THEN TrimLeft(Tail(s)) ELSE s

RECURSIVE TrimRight(_)
TrimRight(s) ==
    IF s # <<>> /\ s[Len(s)] \in Whitespace
    THEN TrimRight(SubSeq(s, 1, Len(s) - 1))
    ELSE s

\* String.prototype.trim
Trim(s) == TrimRight(TrimLeft(s))

\* s.split(",")[0]: the characters before the first comma.
RECURSIVE FirstEntry(_)
FirstEntry(s) ==
    IF s = <<>> \/ Head(s) = "," THEN <<>> ELSE <<Head(s)>> \o FirstEntry(Tail(s))

UnknownIp == <<"u", "n", "k", "n", "o", "w", "n">>

\* forwarded?.split(",")[0]?.trim() || "unknown"
ClientIp(forwarded) ==
    IF forwarded.t # "str" THEN UnknownIp
    ELSE LET e == Trim(FirstEntry(forwarded.v))
         IN  IF e = <<>> THEN UnknownIp ELSE e

\* ------------------------------------------------------------ rate limiter

\* The window closed at its far end.
RecentInclusive(timestamps, t) ==
    SelectSeq(timestamps, LAMBDA x : t - x <= RATE_LIMIT_WINDOW_MS)

\* timestamps.filter((t) => now - t < RATE_LIMIT_WINDOW_MS)
Recent(timestamps, t) ==
    SelectSeq(timestamps, LAMBDA x : t - x < RATE_LIMIT_WINDOW_MS)

\* rateLimitMap.get(ip) ?? []
Timestamps(map, ip) == IF ip \in DOMAIN map THEN map[ip] ELSE <<>>

\* The comparison off by one.
LimitReachedLate(recent) == Len(recent) > RATE_LIMIT_MAX

\* recent.length >= RATE_LIMIT_MAX
LimitReached(recent) == Len(recent) >= RATE_LIMIT_MAX

\* The test on some timestamp instead of every one.
SomeExpired(ts, t) == \E i \in 1..Len(ts) : t - ts[i] >= RATE_LIMIT_WINDOW_MS

\* ts.every((t) => now - t >= RATE_LIMIT_WINDOW_MS)
AllExpired(ts, t) == \A i \in 1..Len(ts) : t - ts[i] >= RATE_LIMIT_WINDOW_MS

\* The cleanup that empties the map.
CleanupClear(map, t) == IF Cardinality(DOMAIN map) > CLEANUP_SIZE THEN <<>> ELSE map

\* The inline cleanup: with more than CLEANUP_SIZE keys, delete every key all
\* of whose timestamps are outside the window.
Cleanup(map, t) ==
    IF Cardinality(DOMAIN map) > CLEANUP_SIZE
    THEN [k \in {k \in DOMAIN map : ~AllExpired(map[k], t)} |-> map[k]]
    ELSE map

\* The entry of the key replaced by the new timestamp alone.
RecordOverwrite(map, ip, recent, t) ==
    [k \in DOMAIN map \cup {ip} |-> IF k = ip THEN <<t>> ELSE map[k]]

\* rateLimitMap.set(ip, recent) after recent.push(now)
Record(map, ip, recent, t) ==
    [k \in DOMAIN map \cup {ip} |-> IF k = ip THEN Append(recent, t) ELSE map[k]]

\* The check without the recording of the timestamp.
IsRateLimitedUnrecorded(map, ip, t) ==
    [limited |-> LimitReached(Recent(Timestamps(map, ip), t)), map |-> map]

\* isRateLimited(ip) at time t: the answer and the map it leaves.
IsRateLimited(map, ip, t) ==
    LET recent == Recent(Timestamps(map, ip), t)
    IN  IF LimitReached(recent)
        THEN [limited |-> TRUE, map |-> map]
        ELSE [limited |-> FALSE, map |-> Cleanup(Record(map, ip, recent, t), t)]

\* ------------------------------------------------------------- sanitization

Min(S) == CHOOSE i \in S : \A j \in S : i <= j

\* The replacement of the first match only (the regular expression without
\* its g flag).
StripHtmlFirst(s) ==
    LET opens == {i \in 1..Len(s) : s[i] = "<" /\ \E j \in (i + 1)..Len(s) : s[j] = ">"}
    IN  IF opens = {} THEN s
        ELSE LET p == Min(opens)
                 q == Min({j \in (p + 1)..Len(s) : s[j] = ">"})
             IN  SubSeq(s, 1, p - 1) \o SubSeq(s, q + 1, Len(s))

\* str.replace(/<[^>]*>/g, ""): the leftmost "<" that has a ">" after it
\* starts a match, which ends at the first ">" after it; the scan goes on
\* after the match.
RECURSIVE StripHtml(_)
StripHtml(s) ==
    LET opens == {i \in 1..Len(s) : s[i] = "<" /\ \E j \in (i + 1)..Len(s) : s[j] = ">"}
    IN  IF opens = {} THEN s
        ELSE LET p == Min(opens)
                 q == Min({j \in (p + 1)..Len(s) : s[j] = ">"})
             IN  SubSeq(s, 1, p - 1) \o StripHtml(SubSeq(s, q + 1, Len(s)))

\* The labels of the known services (written without diacritics).
SERVICE_LABELS ==
    (<<"c", "u", "r", "s", "u", "r", "i", "-", "p", "r", "e", "n", "a", "t", "a", "l", "e">>
        :> <<"C", "u", "r", "s", "u", "r", "i", " ", "P", "r", "e", "n", "a", "t", "a", "l", "e", " ", "L", "a", "m", "a", "z", "e">>
     @@ <<"i", "n", "o", "t", "-", "b", "e", "b", "e", "l", "u", "s", "i">>
        :> <<"I", "n", "o", "t", " ", "B", "e", "b", "e", "l", "u", "s", "i", " ", "(", "0", "-", "3", " ", "a", "n", "i", ")">>
     @@ <<"i", "n", "o", "t", "-", "c", "o", "p", "i", "i">>
        :> <<"I", "n", "o", "t", " ", "C", "o", "p", "i", "i", " ", "(", "3", "-", "1", "2", " ", "a", "n", "i", ")">>
     @@ <<"k", "i", "n", "e", "t", "o", "t", "e", "r", "a", "p", "i", "e">>
        :> <<"K", "i", "n", "e", "t", "o", "t", "e", "r", "a", "p", "i", "e", " ", "P", "e", "d", "i", "a", "t", "r", "i", "c", "a">>
     @@ <<"c", "o", "n", "s", "u", "l", "t", "a", "t", "i", "e">>
        :> <<"C", "o", "n", "s", "u", "l", "t", "a", "t", "i", "e", " ", "G", "e", "n", "e", "r", "a", "l", "a">>
     @@ <<"a", "l", "t", "e", "l", "e">>
        :> <<"A", "l", "t", "e", "l", "e">>)

\* stripHtml(x).trim() of a value; a value that is no string has no
\* replace method and the call throws a TypeError.
Throws(x) == x.t # "str"
Clean(x) == Str(Trim(StripHtml(x.v)))

\* SERVICE_LABELS[body.service] ?? stripHtml(body.service).trim()
ServiceLabel(x) ==
    IF x.t = "str" /\ x.v \in DOMAIN SERVICE_LABELS THEN Str(SERVICE_LABELS[x.v]) ELSE Clean(x)
ServiceThrows(x) == ~(x.t = "str" /\ x.v \in DOMAIN SERVICE_LABELS) /\ Throws(x)

\* Whether building `sanitized` throws.
SanitizeThrows(body) ==
    \/ Throws(body.name)
    \/ Throws(body.email)
    \/ Truthy(body.phone) /\ Throws(body.phone)
    \/ Truthy(body.service) /\ ServiceThrows(body.service)
    \/ Throws(body.message)

Sanitize(body) ==
    [name    |-> Clean(body.name),
     email   |-> Clean(body.email),
     phone   |-> IF Truthy(body.phone) THEN Clean(body.phone) ELSE Undefined,
     service |-> IF Truthy(body.service) THEN ServiceLabel(body.service) ELSE Undefined,
     message |-> Clean(body.message)]

NoSanitized ==
    [name |-> Undefined, email |-> Undefined, phone |-> Undefined,
     service |-> Undefined, message |-> Undefined]

\* --------------------------------------------------------------- validation

\* emailRegex.test(x), /^[^\s@]+@[^\s@]+\.[^\s@]+$/ on the value as a string:
\* no whitespace, exactly one "@" with a character before it, and after it a
\* "." that has a character on each side.
EmailRegexTest(x) ==
    LET s == x.v
        ats == {i \in 1..Len(s) : s[i] = "@"}
    IN  /\ \A i \in 1..Len(s) : s[i] \notin Whitespace
        /\ Cardinality(ats) = 1
        /\ LET at == Min(ats)
           IN  /\ at > 1
               /\ \E j \in (at + 2)..(Len(s) - 1) : s[j] = "."

NoError == "null"
ErrRequired == "Toate campurile obligatorii trebuie completate."
ErrName == "Numele nu poate depasi 200 de caractere."
ErrEmailLength == "Emailul nu poate depasi 254 de caractere."
ErrEmail == "Adresa de email nu este valida."
ErrPhone == "Numarul de telefon nu poate depasi 30 de caractere."
ErrMessage == "Mesajul nu poate depasi 5000 de caractere."

\* The validation without the rule on the phone.
ValidateNoPhone(data) ==
    IF ~Truthy(data.name) \/ ~Truthy(data.email) \/ ~Truthy(data.message) THEN ErrRequired
    ELSE IF LengthExceeds(data.name, MAX_NAME) THEN ErrName
    ELSE IF LengthExceeds(data.email, MAX_EMAIL) THEN ErrEmailLength
    ELSE IF ~EmailRegexTest(data.email) THEN ErrEmail
    ELSE IF LengthExceeds(data.message, MAX_MESSAGE) THEN ErrMessage
    ELSE NoError

Validate(data) ==
    IF ~Truthy(data.name) \/ ~Truthy(data.email) \/ ~Truthy(data.message) THEN ErrRequired
    ELSE IF LengthExceeds(data.name, MAX_NAME) THEN ErrName
    ELSE IF LengthExceeds(data.email, MAX_EMAIL) THEN ErrEmailLength
    ELSE IF ~EmailRegexTest(data.email) THEN ErrEmail
    ELSE IF Truthy(data.phone) /\ LengthExceeds(data.phone, MAX_PHONE) THEN ErrPhone
    ELSE IF LengthExceeds(data.message, MAX_MESSAGE) THEN ErrMessage
    ELSE NoError

\* ---------------------------------------------------------------- responses

NoResponse == [status |-> 0, success |-> FALSE, text |-> ""]
Json(status, success, text) == [status |-> status, success |-> success, text |-> text]

SuccessResponse == Json(200, TRUE, "Mesajul a fost trimis cu succes!")
\* The answer to a filled honeypot.
HoneypotResponse == Json(200, TRUE, "Mesajul a fost trimis cu succes!")
RateLimitedResponse ==
    Json(429, FALSE, "Prea multe cereri. Te rugam sa astepti cateva minute.")
ValidationResponse(err) == Json(400, FALSE, err)
SendErrorResponse ==
    Json(500, FALSE, "A aparut o eroare la trimiterea mesajului. Te rugam sa incerci din nou.")
\* The handler without its catch block: the exception leaves it and nothing
\* is answered.
Uncaught == [status |-> 0, success |-> FALSE, text |-> ""]
CaughtResponse == Json(500, FALSE, "A aparut o eroare. Te rugam sa incerci din nou.")

\* ---------------------------------------------------------- conversions API

RECURSIVE Digits(_)
Digits(n) ==
    LET d == <<"0", "1", "2", "3", "4", "5", "6", "7", "8", "9">>[(n % 10) + 1]
    IN  IF n < 10 THEN <<d>> ELSE Digits(n \div 10) \o <<d>>

\* Math.random().toString(36).slice(2, 11), drawn from two samples.
RandomSuffixes == {<<"k", "3">>, <<"z", "7">>}

LeadName == <<"L", "e", "a", "d">>

\* Math.floor(Date.now() / 1000)
EventTime(t) == t \div 1000

\* `${eventName}_${eventTime}_${random}`
GeneratedEventId(eventName, eventTime, random) ==
    Str(eventName \o <<"_">> \o Digits(eventTime) \o <<"_">> \o random)

\* The id always generated on the server.
FinalEventIdGenerated(eventId, generated) == generated

\* eventId || generated
FinalEventId(eventId, generated) == IF Truthy(eventId) THEN eventId ELSE generated

\* data.toLowerCase()
LowerCase(s) ==
    LET upper == <<"A", "B", "C", "D", "E", "F", "G", "H", "I", "J", "K", "L", "M",
                   "N", "O", "P", "Q", "R", "S", "T", "U", "V", "W", "X", "Y", "Z">>
        lower == <<"a", "b", "c", "d", "e", "f", "g", "h", "i", "j", "k", "l", "m",
                   "n", "o", "p", "q", "r", "s", "t", "u", "v", "w", "x", "y", "z">>
    IN  [i \in 1..Len(s) |->
            IF \E j \in 1..26 : upper[j] = s[i]
            THEN lower[CHOOSE j \in 1..26 : upper[j] = s[i]]
            ELSE s[i]]

\* The data sent as it is, in place of its digest.
Unhashed(data) == Str(data)

\* hashData: the SHA-256 digest of the lower-cased, trimmed data.  The digest
\* is a value of its own kind that names the string digested: equal digests
\* for equal strings, and no digest equal to a string.
HashData(data) == [t |-> "sha256", v |-> LowerCase(Trim(data))]

\* normalizePhone: the digits of the phone, a leading "0" replaced by "40".
NormalizePhone(phone) ==
    LET cleaned == SelectSeq(phone, LAMBDA c : c \in {"0", "1", "2", "3", "4", "5", "6", "7", "8", "9"})
    IN  IF cleaned # <<>> /\ Head(cleaned) = "0" THEN <<"4", "0">> \o Tail(cleaned) ELSE cleaned

\* prepareUserData: a key for every truthy field of the user data, and only
\* for these.
PrepareUserData(userData) ==
    LET prepared ==
            [em |-> IF Truthy(userData.email) THEN HashData(userData.email.v) ELSE Undefined,
             ph |-> IF Truthy(userData.phone)
                    THEN HashData(NormalizePhone(userData.phone.v)) ELSE Undefined,
             fn |-> IF Truthy(userData.firstName) THEN HashData(userData.firstName.v) ELSE Undefined,
             ln |-> IF Truthy(userData.lastName) THEN HashData(userData.lastName.v) ELSE Undefined,
             ct |-> IF Truthy(userData.city) THEN HashData(userData.city.v) ELSE Undefined,
             country |-> IF Truthy(userData.country) THEN HashData(userData.country.v) ELSE Undefined,
             client_ip_address |->
                 IF Truthy(userData.clientIpAddress) THEN userData.clientIpAddress ELSE Undefined,
             client_user_agent |->
                 IF Truthy(userData.clientUserAgent) THEN userData.clientUserAgent ELSE Undefined,
             fbc |-> IF Truthy(userData.fbc) THEN userData.fbc ELSE Undefined,
             fbp |-> IF Truthy(userData.fbp) THEN userData.fbp ELSE Undefined]
    IN  [k \in {k \in DOMAIN prepared : prepared[k] # Undefined} |-> prepared[k]]

\* name.split(" ")[0] and name.split(" ").slice(1).join(" "): the characters
\* before the first space and those after it.
FirstPart(s) ==
    LET spaces == {i \in 1..Len(s) : s[i] = " "}
    IN  IF spaces = {} THEN s ELSE SubSeq(s, 1, Min(spaces) - 1)
RestParts(s) == SubSeq(s, Len(FirstPart(s)) + 2, Len(s))

\* The user data trackLead passes to sendServerEvent, for the arguments the
\* handler calls it with.
TrackLeadUserData(sanitized, ip, userAgent, body) ==
    [email |-> sanitized.email,
     phone |-> sanitized.phone,
     firstName |-> Str(FirstPart(sanitized.name.v)),
     lastName |-> IF RestParts(sanitized.name.v) = <<>> THEN Undefined
                  ELSE Str(RestParts(sanitized.name.v)),
     city |-> Str(<<"B", "u", "c", "u", "r", "e", "s", "t", "i">>),
     country |-> Str(<<"R", "O">>),
     clientIpAddress |-> IF ip # UnknownIp THEN Str(ip) ELSE Undefined,
     clientUserAgent |-> userAgent,
     fbc |-> body.fbc,
     fbp |-> body.fbp]

NoEvent == [event_name |-> <<>>, event_time |-> 0, event_id |-> Undefined, user_data |-> <<>>]
NoResult == [success |-> FALSE, error |-> "", eventId |-> Undefined]

\* sendServerEvent without the check of the access token.
SendServerEventNoTokenCheck(env, eventName, userData, eventId, t, random) ==
    IF ~env.pixelId
    THEN [fetch |-> FALSE, event |-> NoEvent,
          result |-> [success |-> FALSE, error |-> "No Pixel ID configured", eventId |-> Undefined]]
    ELSE [fetch |-> TRUE,
          event |-> [event_name |-> eventName,
                     event_time |-> EventTime(t),
                     event_id |-> FinalEventId(eventId, GeneratedEventId(eventName, EventTime(t), random)),
                     user_data |-> PrepareUserData(userData)],
          result |-> NoResult]

\* The synchronous part of sendServerEvent, up to the call of fetch: either
\* it returns at once (unconfigured) or it has built the event and called
\* fetch.
SendServerEvent(env, eventName, userData, eventId, t, random) ==
    IF ~env.pixelId
    THEN [fetch |-> FALSE, event |-> NoEvent,
          result |-> [success |-> FALSE, error |-> "No Pixel ID configured", eventId |-> Undefined]]
    ELSE IF ~env.accessToken
    THEN [fetch |-> FALSE, event |-> NoEvent,
          result |-> [success |-> FALSE, error |-> "No access token configured", eventId |-> Undefined]]
    ELSE [fetch |-> TRUE,
          event |-> [event_name |-> eventName,
                     event_time |-> EventTime(t),
                     event_id |-> FinalEventId(eventId, GeneratedEventId(eventName, EventTime(t), random)),
                     user_data |-> PrepareUserData(userData)],
          result |-> NoResult]

\* The outcomes of the awaited fetch and response.json().
FetchOutcomes == {"ok", "notOk", "throws"}

\* sendServerEvent without its catch block: the error of fetch or of
\* response.json() rejects the promise and no value is returned.
FetchResultUncaught(event, outcome) ==
    CASE outcome = "ok" -> [success |-> TRUE, error |-> "", eventId |-> event.event_id]
      [] outcome = "notOk" -> [success |-> FALSE, error |-> "Unknown error", eventId |-> Undefined]
      [] outcome = "throws" -> NoResult

\* What sendServerEvent returns once fetch has settled.
FetchResult(event, outcome) ==
    CASE outcome = "ok" -> [success |-> TRUE, error |-> "", eventId |-> event.event_id]
      [] outcome = "notOk" -> [success |-> FALSE, error |-> "Unknown error", eventId |-> Undefined]
      [] outcome = "throws" -> [success |-> FALSE, error |-> "Unknown error", eventId |-> Undefined]

\* fbEvent: with the pixel loaded, window.fbq is called, and the call carries
\* eventID only for a truthy eventId.
FbEventID(eventId, fbq) == IF fbq /\ Truthy(eventId) THEN eventId ELSE Undefined

\* -------------------------------------------------------------------- state

VARIABLES
    now,           \* Date.now()
    rateLimitMap,  \* the module-level Map: key -> timestamps
    env,           \* the process configuration, fixed at module load
    h,             \* the handlers: slot -> the locals and position of one POST call
                   \* (userAgent: the one that went into the user data of its event)
    admitted,      \* history: key -> the timestamps of its admitted requests
    unsent         \* history: key -> its admitted requests answered without a sent email

vars == <<now, rateLimitMap, env, h, admitted, unsent>>

Slots == 1..MaxInFlight

\* The two versions of the handler: with the conversion tracking of
\* trackLead after the send, and without it.
Environments ==
    {[tracking |-> TRUE, pixelId |-> TRUE, accessToken |-> TRUE],
     [tracking |-> TRUE, pixelId |-> FALSE, accessToken |-> TRUE],
     [tracking |-> TRUE, pixelId |-> TRUE, accessToken |-> FALSE],
     [tracking |-> FALSE, pixelId |-> TRUE, accessToken |-> TRUE]}

EmptyBody ==
    [name |-> Undefined, email |-> Undefined, phone |-> Undefined, service |-> Undefined,
     message |-> Undefined, website |-> Undefined, eventId |-> Undefined,
     fbc |-> Undefined, fbp |-> Undefined]

\* A handler that has not been called.
Idle ==
    [pc |-> "idle", ip |-> <<>>, parsed |-> "no", body |-> EmptyBody,
     sanitized |-> NoSanitized, response |-> NoResponse, emailCalls |-> 0,
     send |-> "none", capiCalls |-> 0, capi |-> "none", event |-> NoEvent,
     result |-> NoResult, pixelEventID |-> Undefined, userAgent |-> Undefined]

Init ==
    /\ now = 0
    /\ rateLimitMap = <<>>
    /\ env \in Environments
    /\ h = [i \in Slots |-> Idle]
    /\ admitted = <<>>
    /\ unsent = <<>>

\* A handler has answered: an admitted request that ends without a sent email
\* is counted for its key.
Count(map, ip) == IF ip \in DOMAIN map THEN map[ip] ELSE 0
Answered(slot) ==
    IF slot.pc = "done" /\ slot.send # "id"
    THEN [k \in DOMAIN unsent \cup {slot.ip} |->
            IF k = slot.ip THEN Count(unsent, k) + 1 ELSE unsent[k]]
    ELSE unsent

\* ------------------------------------------------------------------ actions

\* The clock advances to t.
Tick(t) ==
    /\ t > now
    /\ now' = t
    /\ UNCHANGED <<rateLimitMap, env, h, admitted, unsent>>

\* POST is called: the client key is read from the header and isRateLimited
\* runs, up to the 429 response or the await of request.json().
Arrive(i, forwarded) ==
    /\ h[i].pc \in {"idle", "done"}
    /\ h[i].capi # "pending"
    /\ LET ip == ClientIp(forwarded)
           r == IsRateLimited(rateLimitMap, ip, now)
       IN  /\ rateLimitMap' = r.map
           /\ IF r.limited
              THEN /\ h' = [h EXCEPT ![i] = [Idle EXCEPT !.pc = "done", !.ip = ip,
                                                        !.response = RateLimitedResponse]]
                   /\ admitted' = admitted
              ELSE /\ h' = [h EXCEPT ![i] = [Idle EXCEPT !.pc = "parse", !.ip = ip]]
                   /\ admitted' = [k \in DOMAIN admitted \cup {ip} |->
                                     IF k = ip THEN Append(Timestamps(admitted, ip), now)
                                     ELSE admitted[k]]
    /\ UNCHANGED <<now, env, unsent>>

\* request.json() rejects: the catch block answers.
ParseFail(i) ==
    /\ h[i].pc = "parse"
    /\ h' = [h EXCEPT ![i].pc = "done", ![i].parsed = "invalid", ![i].response = CaughtResponse]
    /\ unsent' = Answered(h'[i])
    /\ UNCHANGED <<now, rateLimitMap, env, admitted>>

\* request.json() resolves to null: reading body.website throws.
ParseNull(i) ==
    /\ h[i].pc = "parse"
    /\ h' = [h EXCEPT ![i].pc = "done", ![i].parsed = "null", ![i].response = CaughtResponse]
    /\ unsent' = Answered(h'[i])
    /\ UNCHANGED <<now, rateLimitMap, env, admitted>>

\* The handler with the validation ahead of the honeypot check.
AfterParseValidateFirst(slot, body) ==
    LET parsed == [slot EXCEPT !.parsed = "object", !.body = body]
    IN  IF Validate(body) # NoError
        THEN [parsed EXCEPT !.pc = "done", !.response = ValidationResponse(Validate(body))]
        ELSE IF Truthy(body.website)
        THEN [parsed EXCEPT !.pc = "done", !.response = HoneypotResponse]
        ELSE IF SanitizeThrows(body)
        THEN [parsed EXCEPT !.pc = "done", !.response = CaughtResponse]
        ELSE [parsed EXCEPT !.pc = "send", !.sanitized = Sanitize(body),
                            !.emailCalls = @ + 1, !.send = "pending"]

\* The handler from the parsed body to its next response or await: honeypot,
\* validation, sanitization and the call of resend.emails.send.
AfterParse(slot, body) ==
    LET parsed == [slot EXCEPT !.parsed = "object", !.body = body]
    IN  IF Truthy(body.website)
        THEN [parsed EXCEPT !.pc = "done", !.response = HoneypotResponse]
        ELSE IF Validate(body) # NoError
        THEN [parsed EXCEPT !.pc = "done", !.response = ValidationResponse(Validate(body))]
        ELSE IF SanitizeThrows(body)
        THEN [parsed EXCEPT !.pc = "done", !.response = CaughtResponse]
        ELSE [parsed EXCEPT !.pc = "send", !.sanitized = Sanitize(body),
                            !.emailCalls = @ + 1, !.send = "pending"]

\* Who posted the body: the contact form of the site, with the pixel loaded
\* or not, or another client.
Clients == {"form", "formNoPixel", "other"}

\* The contact form posts a body that carries the event id it generated.
FormBody(body) == body.eventId.t = "str" /\ Truthy(body.eventId)

\* The eventID of the pixel call of the client: the contact form calls fbLead
\* with the event id it posts.
PixelEventID(body, client) ==
    IF client = "other" THEN Undefined ELSE FbEventID(body.eventId, client = "form")

\* request.json() resolves to an object.
ParseBody(i, body, client) ==
    /\ h[i].pc = "parse"
    /\ client # "other" => FormBody(body)
    /\ h' = [h EXCEPT ![i] = [AfterParse(h[i], body) EXCEPT
                                 !.pixelEventID = PixelEventID(body, client)]]
    /\ unsent' = Answered(h'[i])
    /\ UNCHANGED <<now, rateLimitMap, env, admitted>>

\* The outcomes of the awaited resend.emails.send.
SendOutcomes == {"id", "error", "noId", "throws"}

\* The handler answering with an error when the event was not sent.
TrackAndRespondStrict(slot, e, t, random, header) ==
    IF e.tracking
    THEN LET userAgent == IF Truthy(header) THEN header ELSE Undefined
             r == SendServerEvent(e, LeadName,
                                  TrackLeadUserData(slot.sanitized, slot.ip, userAgent, slot.body),
                                  slot.body.eventId, t, random)
         IN  [slot EXCEPT !.pc = "done", !.userAgent = IF r.fetch THEN userAgent ELSE @,
                          !.response = IF r.fetch THEN SuccessResponse ELSE CaughtResponse,
                          !.capiCalls = IF r.fetch THEN @ + 1 ELSE @,
                          !.capi = IF r.fetch THEN "pending" ELSE "skipped",
                          !.event = r.event, !.result = r.result]
    ELSE [slot EXCEPT !.pc = "done", !.response = SuccessResponse]

\* The handler after a successful send: the user-agent header is read,
\* trackLead is called (it runs up to its fetch) and the success response is
\* returned.
TrackAndRespond(slot, e, t, random, header) ==
    IF e.tracking
    THEN LET userAgent == IF Truthy(header) THEN header ELSE Undefined
             r == SendServerEvent(e, LeadName,
                                  TrackLeadUserData(slot.sanitized, slot.ip, userAgent, slot.body),
                                  slot.body.eventId, t, random)
         IN  [slot EXCEPT !.pc = "done", !.response = SuccessResponse,
                          !.userAgent = IF r.fetch THEN userAgent ELSE @,
                          !.capiCalls = IF r.fetch THEN @ + 1 ELSE @,
                          !.capi = IF r.fetch THEN "pending" ELSE "skipped",
                          !.event = r.event, !.result = r.result]
    ELSE [slot EXCEPT !.pc = "done", !.response = SuccessResponse]

\* The handler tracking the lead before it looks at the outcome of the send.
AfterSendTrackFirst(slot, outcome, e, t, random, header) ==
    LET sent == [slot EXCEPT !.send = outcome]
        tracked == TrackAndRespond(sent, e, t, random, header)
    IN  CASE outcome = "throws" -> [sent EXCEPT !.pc = "done", !.response = CaughtResponse]
          [] outcome \in {"error", "noId"} ->
                [tracked EXCEPT !.pc = "done", !.response = SendErrorResponse]
          [] outcome = "id" -> tracked

\* The handler from the settled send to its response.
AfterSend(slot, outcome, e, t, random, header) ==
    LET sent == [slot EXCEPT !.send = outcome]
    IN  CASE outcome = "throws" -> [sent EXCEPT !.pc = "done", !.response = CaughtResponse]
          [] outcome \in {"error", "noId"} ->
                [sent EXCEPT !.pc = "done", !.response = SendErrorResponse]
          [] outcome = "id" -> TrackAndRespond(sent, e, t, random, header)

\* The user-agent header of a request: absent, empty or a product name.
UserAgentHeaders == {Undefined, Str(<<>>), Str(<<"U", "A">>)}

\* resend.emails.send settles, in a request with the given user-agent
\* header.
SendReturn(i, outcome, random, header) ==
    /\ h[i].pc = "send"
    /\ h' = [h EXCEPT ![i] = AfterSend(h[i], outcome, env, now, random, header)]
    /\ unsent' = Answered(h'[i])
    /\ UNCHANGED <<now, rateLimitMap, env, admitted>>

\* The fetch of sendServerEvent settles, inside after().
FetchReturn(i, outcome) ==
    /\ h[i].capi = "pending"
    /\ h' = [h EXCEPT ![i].capi = outcome, ![i].result = FetchResult(h[i].event, outcome)]
    /\ UNCHANGED <<now, rateLimitMap, env, admitted, unsent>>

\* ------------------------------------------------------------------- inputs

\* The readings of the clock: 0, then the last millisecond inside the window
\* of a request admitted at 0 and the MaxLate milliseconds after it.
Times == {0} \cup {RATE_LIMIT_WINDOW_MS - 1 + k : k \in 0..MaxLate}

ValidBody ==
    [name |-> Str(<<"A", "n", "a">>), email |-> Str(<<"a", "@", "b", ".", "c">>),
     phone |-> Undefined, service |-> Undefined, message |-> Str(<<"h", "i">>),
     website |-> Undefined, eventId |-> Str(<<"e", "1">>),
     fbc |-> Undefined, fbp |-> Undefined]

\* A new call takes the lowest free handler.
Free(i) == h[i].pc \in {"idle", "done"} /\ h[i].capi # "pending"
LowestFree(i) == Free(i) /\ \A j \in Slots : j < i => ~Free(j)

\* The number of requests admitted so far.
RECURSIVE Admissions(_)
Admissions(keys) ==
    IF keys = {} THEN 0
    ELSE LET k == CHOOSE x \in keys : TRUE
         IN  Len(admitted[k]) + Admissions(keys \ {k})

\* The traffic specification admits at most MaxAdmitted requests; a request
\* that is rejected is always possible.
WithinTraffic(forwarded) ==
    \/ Admissions(DOMAIN admitted) < MaxAdmitted
    \/ IsRateLimited(rateLimitMap, ClientIp(forwarded), now).limited

\* Sample values of the fields of a body.
Names ==
    {Undefined, Str(<<>>), Str(<<" ">>), Str(<<"<", "b", ">">>),
     Str(<<"<", "b", ">", "A", "n", "a", "<", "/", "b", ">">>), Num(<<"7">>),
     Str(Rep("a", MAX_NAME)), Str(Rep("a", MAX_NAME + 1))}

Emails ==
    {Undefined, Str(<<>>), Num(<<"7">>),
     Str(<<"a", "@", "b">>), Str(<<"a", " ", "@", "b", ".", "c">>),
     Str(<<"a", "@", "@", "b", ".", "c">>), Str(<<"@", "b", ".", "c">>),
     Str(<<"a", "@", ".", "c">>), Str(<<"a", "@", "b", ".">>),
     Str(<<"a", "@", "b", ".", ".", "c">>), Str(<<"<", "i", ">", "@", "b", ".", "c">>),
     Str(Rep("a", MAX_EMAIL - 4) \o <<"@", "b", ".", "c">>),
     Str(Rep("a", MAX_EMAIL - 3) \o <<"@", "b", ".", "c">>)}

Phones ==
    {Str(<<>>), Str(<<"0", "7", "2">>), Num(<<"7">>),
     Str(Rep("1", MAX_PHONE)), Str(Rep("1", MAX_PHONE + 1))}

Services ==
    {Str(<<"a", "l", "t", "e", "l", "e">>), Str(<<"x", "<", "b", ">">>), Num(<<"7">>)}

Messages ==
    {Undefined, Str(<<>>), Str(<<"<", "p", ">", "h", "i", "<", "/", "p", ">">>),
     Str(<<"<", ">">>), Num(<<"7">>),
     Str(Rep("m", MAX_MESSAGE)), Str(Rep("m", MAX_MESSAGE + 1))}

Websites == {Str(<<>>), Str(<<"x">>), Num(<<"7">>)}

EventIds == {Undefined, Str(<<>>), Num(<<"7">>)}

\* The valid body and the bodies that differ from it in one field.
FieldVariants ==
    {ValidBody}
    \cup {[ValidBody EXCEPT !.name = x] : x \in Names}
    \cup {[ValidBody EXCEPT !.email = x] : x \in Emails}
    \cup {[ValidBody EXCEPT !.phone = x] : x \in Phones}
    \cup {[ValidBody EXCEPT !.service = x] : x \in Services}
    \cup {[ValidBody EXCEPT !.message = x] : x \in Messages}
    \cup {[ValidBody EXCEPT !.eventId = x] : x \in EventIds}

\* The bodies of the pipeline specification: each of these with each value
\* of the honeypot field.
Bodies ==
    FieldVariants \cup {[b EXCEPT !.website = x] : b \in FieldVariants, x \in Websites}

\* ------------------------------------------------------------ specification

\* The pipeline specification: one request at a time of one client, with any
\* body, any outcome of each awaited call and any configuration.
Next ==
    \/ \E f \in {Str(<<"1", ".", "2">>)} : Free(1) /\ Arrive(1, f)
    \/ ParseFail(1)
    \/ ParseNull(1)
    \/ \E b \in Bodies, c \in Clients : ParseBody(1, b, c)
    \/ \E o \in SendOutcomes, r \in RandomSuffixes, a \in UserAgentHeaders :
          SendReturn(1, o, r, a)
    \/ \E o \in FetchOutcomes : FetchReturn(1, o)

Spec == Init /\ [][Next]_vars

\* The configuration of the traffic specification: no pixel id is set.
Untracked == [tracking |-> TRUE, pixelId |-> FALSE, accessToken |-> FALSE]

InitTraffic ==
    /\ now = 0
    /\ rateLimitMap = <<>>
    /\ env = Untracked
    /\ h = [i \in Slots |-> Idle]
    /\ admitted = <<>>
    /\ unsent = <<>>

\* x-forwarded-for in the traffic specification: absent, and a list.
TrafficForwardeds == {Undefined, Str(<<" ", "1", ".", "2", " ", ",", "9", ".", "9">>)}

\* The traffic specification: requests of two client keys over time, up to
\* MaxInFlight of them in flight at once, each a valid submission.
NextTraffic ==
    \/ \E t \in Times : Tick(t)
    \/ \E i \in Slots, f \in TrafficForwardeds :
          WithinTraffic(f) /\ LowestFree(i) /\ Arrive(i, f)
    \/ \E i \in Slots : ParseBody(i, ValidBody, "form")
    \/ \E i \in Slots, r \in RandomSuffixes : SendReturn(i, "id", r, Undefined)

SpecTraffic == InitTraffic /\ [][NextTraffic]_vars

\* The strings of the sanitization specification: every string of at most
\* MaxLen characters over "<", ">", a letter and a space.
StripAlphabet == {"<", ">", "a", " "}
Strings(n) == UNION {[1..k -> StripAlphabet] : k \in 0..n}

\* The valid body with each of these strings as its message.
StripBodies == {[ValidBody EXCEPT !.message = Str(s)] : s \in Strings(MaxLen)}

\* The sanitization specification: one request at a time of one client, its
\* message any of the strings, up to the settled send.
NextSanitize ==
    \/ \E f \in {Str(<<"1", ".", "2">>)} : Free(1) /\ Arrive(1, f)
    \/ \E b \in StripBodies : ParseBody(1, b, "form")
    \/ \E r \in RandomSuffixes : SendReturn(1, "id", r, Undefined)

SpecSanitize == InitTraffic /\ [][NextSanitize]_vars

\* The configuration of the user-data specification: everything is set.
Configured == [tracking |-> TRUE, pixelId |-> TRUE, accessToken |-> TRUE]

InitUserData ==
    /\ now = 0
    /\ rateLimitMap = <<>>
    /\ env = Configured
    /\ h = [i \in Slots |-> Idle]
    /\ admitted = <<>>
    /\ unsent = <<>>

\* Sample personal data: names of one, two and three parts, emails and a
\* service in capitals, phones with a leading 0, with a country code and
\* without digits, and the cookies of the pixel.
UserNames ==
    {Str(<<"A", "n", "a">>), Str(<<"A", "n", "a", " ", "P", "o", "p">>),
     Str(<<"A", " ", "B", " ", "C">>), Str(<<"<", "b", ">">>)}
UserEmails == {Str(<<"a", "@", "b", ".", "c">>), Str(<<"A", "@", "B", ".", "c">>)}
UserPhones ==
    {Undefined, Str(<<>>), Str(<<"0", "7", " ", "2">>), Str(<<"+", "4", "0", "7">>),
     Str(<<"n", "/", "a">>)}
UserCookies == {Undefined, Str(<<>>), Str(<<"f", "b", ".", "1">>)}

UserBodies ==
    {[ValidBody EXCEPT !.name = n, !.email = e, !.phone = p, !.fbc = c, !.fbp = c2] :
        n \in UserNames, e \in UserEmails, p \in UserPhones,
        c \in UserCookies, c2 \in {Undefined, Str(<<"f", "b", ".", "2">>)}}

\* The user-data specification: the first request, with or without
\* x-forwarded-for, its body carrying any of the sample personal data, sent
\* and reported to the conversion API.
NextUserData ==
    \/ \E f \in {Undefined, Str(<<"1", ".", "2">>)} : h[1].pc = "idle" /\ Arrive(1, f)
    \/ \E b \in UserBodies : ParseBody(1, b, "form")
    \/ \E r \in RandomSuffixes, a \in UserAgentHeaders : SendReturn(1, "id", r, a)
    \/ FetchReturn(1, "ok")

SpecUserData == InitUserData /\ [][NextUserData]_vars

\* The keys of the clients whose requests filled the map: "1", "2", ...
FillerKeys(n) == {Digits(k) : k \in 1..n}

\* The timestamps of a client that filled the map: four accepted submissions
\* of client "1" and one of every other, all at time 0.
FillerTimestamps(k) == IF k = <<"1">> THEN <<0, 0, 0, 0>> ELSE <<0>>

\* The cleanup specification starts after CLEANUP_SIZE - 1 or CLEANUP_SIZE
\* clients made their accepted submissions at time 0.
InitCleanup ==
    /\ now = 0
    /\ \E n \in {CLEANUP_SIZE - 1, CLEANUP_SIZE} :
          /\ rateLimitMap = [k \in FillerKeys(n) |-> FillerTimestamps(k)]
          /\ admitted = [k \in FillerKeys(n) |-> FillerTimestamps(k)]
    /\ env = Untracked
    /\ h = [i \in Slots |-> Idle]
    /\ unsent = <<>>

\* x-forwarded-for in the cleanup specification: one of the clients that
\* filled the map, a new client, and no header.
CleanupForwardeds == {Str(<<"1">>), Str(<<"1", ".", "2">>), Undefined}

\* The requests admitted after the ones that filled the map.
Fresh ==
    (Len(admitted[<<"1">>]) - Len(FillerTimestamps(<<"1">>)))
    + Len(Timestamps(admitted, <<"1", ".", "2">>))
    + Len(Timestamps(admitted, UnknownIp))

WithinCleanup(forwarded) ==
    \/ Fresh < MaxFresh
    \/ IsRateLimited(rateLimitMap, ClientIp(forwarded), now).limited

\* The cleanup specification: one request at a time, of three clients over
\* time, on a map of about CLEANUP_SIZE keys; each request ends at its body.
NextCleanup ==
    \/ \E t \in Times : Tick(t)
    \/ \E f \in CleanupForwardeds : WithinCleanup(f) /\ Free(1) /\ Arrive(1, f)
    \/ ParseFail(1)

SpecCleanup == InitCleanup /\ [][NextCleanup]_vars

\* ------------------------------------------------------------------- claims

\* The entries of a list of timestamps that lie in [from, from + window).
InWindow(ts, from) ==
    {i \in 1..Len(ts) : from <= ts[i] /\ ts[i] < from + RATE_LIMIT_WINDOW_MS}

\* The handler in slot i is called at this step.
Called(i) == h[i].pc \in {"idle", "done"} /\ h'[i] # h[i]

\* C1: the key of a request is the first entry of x-forwarded-for, trimmed,
\* or "unknown"; whenever a request of a key is admitted at time T, at most 5 admitted
\* requests of that key, itself included, have a timestamp t with
\* T - t < 900000; and a request that arrives while 5 admitted timestamps of
\* its key are inside the window is answered 429.
C1_AdmittedInWindow ==
    /\ DOMAIN rateLimitMap \subseteq {<<"1", ".", "2">>, <<"u", "n", "k", "n", "o", "w", "n">>}
    /\ \A k \in DOMAIN admitted : \A j \in 1..Len(admitted[k]) :
          Cardinality({i \in 1..j : admitted[k][j] - admitted[k][i] < 900000}) <= 5

C1_RejectedWhenFull ==
    \A i \in Slots :
        (/\ Called(i)
         /\ Cardinality({j \in 1..Len(Timestamps(admitted, h'[i].ip)) :
                            now - admitted[h'[i].ip][j] < 900000}) >= 5)
        => h'[i].pc = "done" /\ h'[i].response.status = 429

C1_SlidingWindow == [](C1_AdmittedInWindow) /\ [][C1_RejectedWhenFull]_vars

\* A request is rejected at the last millisecond of the window of five
\* admitted requests of its key.
C1_Witness ==
    \E i \in Slots :
        /\ h[i].response.status = 429
        /\ now = RATE_LIMIT_WINDOW_MS - 1
        /\ Len(Timestamps(admitted, h[i].ip)) = 5
        /\ \A j \in 1..5 : admitted[h[i].ip][j] = 0

\* C8: with handlers in flight at once, for every key no window of 15
\* minutes holds more than 5 admitted timestamps, and every admitted
\* timestamp that is still inside the window is in the map.
C8_Concurrent ==
    \A k \in DOMAIN admitted :
        /\ \A j \in 1..Len(admitted[k]) :
              Cardinality(InWindow(admitted[k], admitted[k][j])) <= RATE_LIMIT_MAX
        /\ Recent(Timestamps(rateLimitMap, k), now) = Recent(admitted[k], now)

\* Two requests of one key are in flight, one awaiting its body and one its
\* send, and both timestamps are recorded.
C8_Witness ==
    /\ h[1].pc = "send"
    /\ h[2].pc = "parse"
    /\ h[1].ip = h[2].ip
    /\ Len(Timestamps(rateLimitMap, h[1].ip)) >= 2

\* A value that is present and not the empty string.
Filled(x) == x.t # "undef" /\ ~(x.t = "str" /\ x.v = <<>>)

\* The request of a handler was admitted and its body parsed to an object.
Parsed(s) == s.pc # "idle" /\ s.response.status # 429 /\ s.parsed = "object"

\* The handler accepted the submission: the send returned an id.
Accepted(s) == s.pc = "done" /\ s.send = "id"

\* C2: an admitted request whose body has a non-empty website field is
\* answered 200 with the body of a successful submission, and makes no call
\* to the email provider and none to the conversion API, whatever its other
\* fields contain.
C2_Honeypot ==
    \A i \in Slots :
        (Parsed(h[i]) /\ Filled(h[i].body.website))
        => /\ h[i].pc = "done"
           /\ h[i].response =
                 [status |-> 200, success |-> TRUE, text |-> "Mesajul a fost trimis cu succes!"]
           /\ h[i].response = SuccessResponse
           /\ h[i].emailCalls = 0
           /\ h[i].capiCalls = 0
           /\ h[i].capi = "none"

\* A filled honeypot on a body that validation would reject.
C2_Witness ==
    \E i \in Slots :
        /\ Parsed(h[i])
        /\ Filled(h[i].body.website)
        /\ ~Filled(h[i].body.name)
        /\ h[i].response.status = 200

\* <non-space-non-@>+@<non-space-non-@>+.<non-space-non-@>+
EmailForm(s) ==
    \E a \in 2..Len(s) :
        /\ s[a] = "@"
        /\ \A k \in 1..Len(s) : s[k] \notin Whitespace /\ (k # a => s[k] # "@")
        /\ \E d \in (a + 2)..(Len(s) - 1) : s[d] = "."

\* The rules of the validation, on the raw body.
RuleViolated(body) ==
    \/ ~Filled(body.name)
    \/ ~Filled(body.email)
    \/ ~Filled(body.message)
    \/ body.name.t = "str" /\ Len(body.name.v) > 200
    \/ body.email.t = "str" /\ Len(body.email.v) > 254
    \/ ~EmailForm(body.email.v)
    \/ body.phone.t = "str" /\ Len(body.phone.v) > 30
    \/ body.message.t = "str" /\ Len(body.message.v) > 5000

\* C3: an admitted request with an empty honeypot whose raw body violates a
\* rule of the validation is answered 400 with an error message and makes no
\* email call and no conversion call; one that violates none is never
\* answered 400.
C3_Validation ==
    \A i \in Slots :
        (Parsed(h[i]) /\ ~Filled(h[i].body.website))
        => IF RuleViolated(h[i].body)
           THEN /\ h[i].pc = "done"
                /\ h[i].response.status = 400
                /\ ~h[i].response.success
                /\ h[i].response.text # ""
                /\ h[i].emailCalls = 0
                /\ h[i].capiCalls = 0
                /\ h[i].capi = "none"
           ELSE h[i].response.status # 400

\* A phone of 31 characters on an otherwise valid body is answered 400.
C3_Witness ==
    \E i \in Slots :
        /\ Parsed(h[i])
        /\ h[i].body.phone.t = "str"
        /\ Len(h[i].body.phone.v) = 31
        /\ ~Filled(h[i].body.website)
        /\ h[i].response.status = 400

\* C4: a request makes at most one call to the email provider, and exactly
\* one if and only if it is admitted, its body parses, its honeypot field is
\* empty and it passes validation.
C4_OneEmailCall ==
    \A i \in Slots :
        /\ h[i].emailCalls <= 1
        /\ h[i].pc \in {"send", "done"}
           => (h[i].emailCalls = 1
               <=> /\ Parsed(h[i])
                   /\ ~Filled(h[i].body.website)
                   /\ Validate(h[i].body) = NoError)

\* C5, as stated: every accepted submission is reported to the conversion
\* API by exactly one outbound call, in every configuration.
C5_ExactlyOneCall ==
    \A i \in Slots : Accepted(h[i]) => h[i].capiCalls = 1

\* C5, amended: a request makes at most one call to the conversion API; an
\* accepted submission makes exactly one when the handler tracks leads and
\* both the pixel id and the access token are configured, and none
\* otherwise; a request that is not accepted makes none.
C5_OneCallWhenConfigured ==
    \A i \in Slots :
        /\ h[i].capiCalls <= 1
        /\ h[i].capiCalls = 1
           <=> (Accepted(h[i]) /\ env.tracking /\ env.pixelId /\ env.accessToken)

\* An accepted submission whose one conversion call has returned.
C5_Witness ==
    \E i \in Slots : Accepted(h[i]) /\ h[i].capiCalls = 1 /\ h[i].capi = "ok"

\* C6: when a submission carries an event id, the event sent to the
\* conversion API carries exactly that id, the one the pixel call of the
\* form carries as eventID; the server generates an id only when the
\* submission carries none.
C6_EventId ==
    \A i \in Slots :
        h[i].capiCalls = 1
        => /\ Filled(h[i].body.eventId)
              => /\ h[i].event.event_id = h[i].body.eventId
                 /\ h[i].pixelEventID # Undefined => h[i].event.event_id = h[i].pixelEventID
           /\ h[i].event.event_id # h[i].body.eventId => ~Filled(h[i].body.eventId)

\* An event was sent for a submission of the form and carries its pixel id.
C6_Witness ==
    \E i \in Slots :
        /\ h[i].capiCalls = 1
        /\ Filled(h[i].body.eventId)
        /\ h[i].pixelEventID = h[i].body.eventId
        /\ h[i].event.event_id = h[i].pixelEventID

C9_AnsweredSuccess ==
    \A i \in Slots :
        h[i].send = "id"
        => /\ h[i].pc = "done"
           /\ h[i].response =
                 [status |-> 200, success |-> TRUE, text |-> "Mesajul a fost trimis cu succes!"]

C9_FetchLeavesMap ==
    \A i \in Slots :
        (h[i].capi = "pending" /\ h'[i].capi # "pending")
        => /\ rateLimitMap' = rateLimitMap
           /\ h'[i].response = h[i].response

C9_TrackingNeverFails == [](C9_AnsweredSuccess) /\ [][C9_FetchLeavesMap]_vars

\* The conversion call threw and the answer is the success.
C9_Witness ==
    \E i \in Slots : h[i].capi = "throws" /\ h[i].response.status = 200

\* C10: every admitted request holds a timestamp of its key whatever its
\* outcome: the in-window timestamps of a key are at least as many as its
\* requests answered without a sent email, and a request is answered 429
\* once five are in the window.  (The clock of Spec stands still, so every
\* request lies inside the window.)
C10_SlotConsumed ==
    /\ \A k \in DOMAIN unsent :
          Len(Recent(Timestamps(rateLimitMap, k), now)) >= unsent[k]
    /\ \A i \in Slots :
          h[i].response.status = 429
          <=> (h[i].pc = "done" /\ h[i].parsed = "no" /\ Len(Timestamps(admitted, h[i].ip)) = 5)

\* Five requests of a key ended without a sent email and the next one is
\* answered 429.
C10_Witness ==
    \E i \in Slots :
        /\ h[i].response.status = 429
        /\ Count(unsent, h[i].ip) = 5

\* C11: a request answered 429 leaves the rate-limit map as it was, and a
\* request of a key is admitted whenever the fifth most recent admitted
\* timestamp of the key (the oldest of the five that block it) is at least
\* 900000 ms old, however many requests of the key were rejected before.
C11_RejectionLeavesMap ==
    \A i \in Slots :
        (Called(i) /\ h'[i].response.status = 429) => rateLimitMap' = rateLimitMap

C11_AdmittedAgain ==
    \A i \in Slots :
        Called(i)
        => LET ts == Timestamps(admitted, h'[i].ip)
           IN  (Len(ts) < 5 \/ now - ts[Len(ts) - 4] >= 900000)
               => /\ h'[i].pc = "parse"
                  /\ h'[i].response.status # 429
                  /\ admitted'[h'[i].ip] = Append(ts, now)

C11_RejectionsDoNotExtend == [][C11_RejectionLeavesMap /\ C11_AdmittedAgain]_vars

\* A key with five requests admitted at 0 and a rejected request is admitted
\* again at 900000, while the rejected request is still on record.
C11_Witness ==
    /\ now = RATE_LIMIT_WINDOW_MS
    /\ h[1].pc = "parse"
    /\ h[2].response.status = 429
    /\ h[1].ip = h[2].ip
    /\ admitted[h[1].ip] = <<0, 0, 0, 0, 0, RATE_LIMIT_WINDOW_MS>>

\* The handler in slot i is called at this step and admits the request.
Admits(i) == Called(i) /\ h'[i].pc = "parse"

\* Some timestamp of the list is inside the window at time t.
HasRecent(ts, t) == \E j \in 1..Len(ts) : t - ts[j] < 900000

\* C12: keys leave the map only in an admitting call that leaves more than
\* 1000 keys; such a call deletes exactly the keys that have no timestamp
\* inside the window and changes no other entry, so after an admitting call
\* the map has at most 1000 keys or every key has a timestamp inside the
\* window; and every request gets the decision that the admitted timestamps
\* of its key, never cleaned, give it.
C12_CleanupOnlyWhenLarge ==
    (DOMAIN rateLimitMap \ DOMAIN rateLimitMap' # {})
    => \E i \in Slots :
          Admits(i) /\ Cardinality(DOMAIN rateLimitMap \cup {h'[i].ip}) > 1000

C12_DeletesExpired ==
    \A i \in Slots :
        Admits(i)
        => LET ip == h'[i].ip
               keys == DOMAIN rateLimitMap \cup {ip}
           IN  /\ DOMAIN rateLimitMap' =
                     IF Cardinality(keys) > 1000
                     THEN {k \in keys : k = ip \/ HasRecent(rateLimitMap[k], now)}
                     ELSE keys
               /\ \A k \in DOMAIN rateLimitMap' \ {ip} : rateLimitMap'[k] = rateLimitMap[k]
               /\ HasRecent(rateLimitMap'[ip], now)
               /\ \/ Cardinality(DOMAIN rateLimitMap') <= 1000
                  \/ \A k \in DOMAIN rateLimitMap' : HasRecent(rateLimitMap'[k], now)

C12_DecisionKept ==
    \A i \in Slots :
        Called(i)
        => LET ts == Timestamps(admitted, h'[i].ip)
           IN  h'[i].response.status = 429
               <=> Cardinality({j \in 1..Len(ts) : now - ts[j] < 900000}) >= 5

C12_InlineCleanup ==
    [][C12_CleanupOnlyWhenLarge /\ C12_DeletesExpired /\ C12_DecisionKept]_vars

\* A cleanup ran at 900000 on more than 1000 keys: the keys whose timestamps
\* are all at 0 are gone, and the key that has timestamps at 0 and one at
\* 899999 is kept with all of them.
C12_Witness ==
    /\ now = RATE_LIMIT_WINDOW_MS
    /\ Cardinality(DOMAIN admitted) > CLEANUP_SIZE
    /\ DOMAIN rateLimitMap = {<<"1">>, <<"1", ".", "2">>}
    /\ rateLimitMap[<<"1">>] = <<0, 0, 0, 0, RATE_LIMIT_WINDOW_MS - 1>>
    /\ rateLimitMap[<<"1", ".", "2">>] = <<RATE_LIMIT_WINDOW_MS>>

\* What the rate limiter holds of key k: its timestamps inside the window.
View(map, k, t) == SelectSeq(Timestamps(map, k), LAMBDA x : t - x < 900000)

\* C13: the decision for a request of key A is a function of the time and of
\* the timestamps of A inside the window; a request of A changes them by at
\* most its own timestamp; and a step that is no request of A (a request of
\* another key with its cleanup, a handler going on, the clock) leaves the
\* timestamps of A that are inside the window, now and at any later time,
\* as they were.  Two sequences of requests that agree on the requests of A
\* therefore give every request of A the same decision.
C13_DecisionFromOwnKey ==
    \A i \in Slots :
        Called(i)
        => LET a == h'[i].ip
               view == View(rateLimitMap, a, now)
           IN  /\ h'[i].response.status = 429 <=> Len(view) >= 5
               /\ View(rateLimitMap', a, now) =
                     IF Len(view) >= 5 THEN view ELSE Append(view, now)

C13_OtherKeysUntouched ==
    \A a \in DOMAIN rateLimitMap \cup DOMAIN rateLimitMap' :
        (\A i \in Slots : ~(Called(i) /\ h'[i].ip = a))
        => \A t \in {now'} \cup {x \in Times : x >= now'} :
              View(rateLimitMap', a, t) = View(rateLimitMap, a, t)

C13_PerKeyIsolation == [][C13_DecisionFromOwnKey /\ C13_OtherKeysUntouched]_vars

\* A request of client "1" is rejected on a map of more than 1000 keys in
\* which another client's request ran the cleanup.
C13_Witness ==
    /\ h[1].response.status = 429
    /\ h[1].ip = <<"1">>
    /\ Cardinality(DOMAIN rateLimitMap) > CLEANUP_SIZE
    /\ <<"1", ".", "2">> \in DOMAIN rateLimitMap

\* No "<" of the string has a ">" after it.
NoTag(s) == ~\E i \in 1..Len(s) : s[i] = "<" /\ \E j \in (i + 1)..Len(s) : s[j] = ">"

\* C14: for the message s of every parsed body, stripHtml(s) has no "<"
\* followed later by a ">", stripHtml(stripHtml(s)) = stripHtml(s),
\* stripHtml(s) is not longer than s, and s without a "<" is returned
\* unchanged; the message the handler sends is stripHtml(s), trimmed.
C14_StripHtml ==
    \A i \in Slots :
        (h[i].parsed = "object" /\ h[i].body.message.t = "str")
        => LET s == h[i].body.message.v
               r == StripHtml(s)
           IN  /\ NoTag(r)
               /\ StripHtml(r) = r
               /\ Len(r) <= Len(s)
               /\ (\A k \in 1..Len(s) : s[k] # "<") => r = s
               /\ h[i].sanitized # NoSanitized => h[i].sanitized.message = Str(Trim(r))

\* The message "<a><" was sanitized: its tag is gone and the "<" that no ">"
\* follows is kept.
C14_Witness ==
    \E i \in Slots :
        /\ h[i].body.message = Str(<<"<", "a", ">", "<">>)
        /\ h[i].sanitized.message = Str(<<"<">>)

\* C15: for every request that reaches the email send, the sanitized name
\* and message are non-empty and within their length limits, and the
\* sanitized email is non-empty and matches the email format of the
\* validation.
C15_SentValuesValid ==
    \A i \in Slots :
        h[i].emailCalls = 1
        => LET v == h[i].sanitized
           IN  /\ v.name.t = "str" /\ Len(v.name.v) \in 1..200
               /\ v.message.t = "str" /\ Len(v.message.v) \in 1..5000
               /\ v.email.t = "str" /\ Len(v.email.v) >= 1
               /\ EmailForm(v.email.v)

\* An exception was raised in the handler: request.json() rejected, the body
\* is null, sanitization threw on a field that is no string, or the call of
\* the email provider threw.
Raised(s) ==
    \/ s.parsed \in {"invalid", "null"}
    \/ /\ s.parsed = "object"
       /\ ~Filled(s.body.website)
       /\ ~RuleViolated(s.body)
       /\ \E x \in {s.body.name, s.body.email, s.body.phone, s.body.service, s.body.message} :
             Filled(x) /\ x.t # "str"
    \/ s.send = "throws"

\* C16: a request in whose handling an exception was raised is answered 500
\* with the generic error body and reports no conversion event; a handler
\* that has answered has a status in {200, 400, 429, 500}, one that has not
\* has no response, and a response once given is never replaced.
C16_Answered ==
    \A i \in Slots :
        /\ Raised(h[i])
           => /\ h[i].pc = "done"
              /\ h[i].response =
                    [status |-> 500, success |-> FALSE,
                     text |-> "A aparut o eroare. Te rugam sa incerci din nou."]
              /\ h[i].capiCalls = 0
              /\ h[i].capi = "none"
              /\ h[i].event = NoEvent
        /\ h[i].pc = "done" <=> h[i].response.status \in {200, 400, 429, 500}
        /\ h[i].pc # "done" => h[i].response = NoResponse

C16_OneResponse ==
    \A i \in Slots :
        (h[i].response # NoResponse /\ h'[i].response # h[i].response) => Called(i)

C16_NoException == [](C16_Answered) /\ [][C16_OneResponse]_vars

\* Sanitization threw on a message that is a number, after a body that
\* request.json() parsed and the validation passed.
C16_Witness ==
    \E i \in Slots :
        /\ h[i].parsed = "object"
        /\ h[i].body.message.t = "num"
        /\ Validate(h[i].body) = NoError
        /\ h[i].response.status = 500
        /\ h[i].emailCalls = 0

\* sendServerEvent returned a failure as a value.
Failure(r) == ~r.success /\ r.error # "" /\ r.eventId = Undefined

\* C17: with the pixel id or the access token not configured,
\* sendServerEvent returns a failure without a network call; otherwise it
\* makes exactly one call, returns success only for an ok response, with the
\* event_id it sent, and returns a failure for a response that is not ok and
\* for a thrown error: whenever it has settled it has returned a value.
C17_SendServerEvent ==
    \A i \in Slots :
        LET s == h[i]
        IN  /\ (Accepted(s) /\ env.tracking /\ ~(env.pixelId /\ env.accessToken))
               => s.capi = "skipped"
            /\ s.capi = "skipped"
               => /\ ~(env.pixelId /\ env.accessToken)
                  /\ s.capiCalls = 0
                  /\ s.event = NoEvent
                  /\ Failure(s.result)
            /\ s.capi \in {"pending", "ok", "notOk", "throws"}
               => /\ env.pixelId /\ env.accessToken
                  /\ s.capiCalls = 1
                  /\ s.event.event_name = <<"L", "e", "a", "d">>
                  /\ Truthy(s.event.event_id)
            /\ s.result.success
               <=> (s.capi = "ok" /\ s.result.eventId = s.event.event_id /\ s.result.error = "")
            /\ s.capi \in {"notOk", "throws"} => Failure(s.result)
            /\ s.capi = "pending" => s.result = NoResult

\* The conversion API answered with a status that is not ok: a failure was
\* returned after the one call.
C17_Witness ==
    \E i \in Slots :
        /\ h[i].capi = "notOk"
        /\ h[i].capiCalls = 1
        /\ ~h[i].result.success
        /\ h[i].result.error = "Unknown error"

\* The digest of a string, lower-cased and trimmed.
HashOf(x) == [t |-> "sha256", v |-> LowerCase(Trim(x))]

\* The digits of a phone, with "40" for a leading "0".
PhoneDigits(p) ==
    LET d == SelectSeq(p, LAMBDA c : c \in {"0", "1", "2", "3", "4", "5", "6", "7", "8", "9"})
    IN  IF d # <<>> /\ d[1] = "0" THEN <<"4", "0">> \o SubSeq(d, 2, Len(d)) ELSE d

\* The entry of key k of a payload is the value x, or is missing when x is
\* absent or empty.
EntryIs(u, k, present, x) ==
    IF present THEN k \in DOMAIN u /\ u[k] = x ELSE k \notin DOMAIN u

\* C18: in the user data of every event sent, the email, phone, first name,
\* last name, city and country are the digests of the lower-cased, trimmed
\* values (of the normalised phone), none of them a string; client IP, user
\* agent, fbc and fbp are the values received; and a field that is absent
\* or empty has no key.
C18_UserDataHashed ==
    \A i \in Slots :
        h[i].capiCalls = 1
        => LET u == h[i].event.user_data
               v == h[i].sanitized
               b == h[i].body
               first == FirstPart(v.name.v)
               rest == RestParts(v.name.v)
           IN  /\ DOMAIN u \subseteq {"em", "ph", "fn", "ln", "ct", "country",
                                      "client_ip_address", "client_user_agent", "fbc", "fbp"}
               /\ \A k \in DOMAIN u \cap {"em", "ph", "fn", "ln", "ct", "country"} :
                      u[k].t = "sha256"
               /\ EntryIs(u, "em", Filled(v.email), HashOf(v.email.v))
               /\ EntryIs(u, "ph", Filled(v.phone), HashOf(PhoneDigits(v.phone.v)))
               /\ EntryIs(u, "fn", first # <<>>, HashOf(first))
               /\ EntryIs(u, "ln", rest # <<>>, HashOf(rest))
               /\ EntryIs(u, "ct", TRUE, HashOf(<<"B", "u", "c", "u", "r", "e", "s", "t", "i">>))
               /\ EntryIs(u, "country", TRUE, HashOf(<<"R", "O">>))
               /\ EntryIs(u, "client_ip_address", h[i].ip # UnknownIp, Str(h[i].ip))
               /\ EntryIs(u, "client_user_agent", Filled(h[i].userAgent), h[i].userAgent)
               /\ EntryIs(u, "fbc", Filled(b.fbc), b.fbc)
               /\ EntryIs(u, "fbp", Filled(b.fbp), b.fbp)

\* An event was sent for "Ana Pop" with a phone "07 2" and no
\* x-forwarded-for: both parts of the name and the normalised phone are
\* digests, and there is no key for the client IP.
C18_Witness ==
    \E i \in Slots :
        /\ h[i].capiCalls = 1
        /\ h[i].body.name = Str(<<"A", "n", "a", " ", "P", "o", "p">>)
        /\ h[i].body.phone = Str(<<"0", "7", " ", "2">>)
        /\ h[i].event.user_data.fn = [t |-> "sha256", v |-> <<"a", "n", "a">>]
        /\ h[i].event.user_data.ln = [t |-> "sha256", v |-> <<"p", "o", "p">>]
        /\ h[i].event.user_data.ph = [t |-> "sha256", v |-> <<"4", "0", "7", "2">>]
        /\ "client_ip_address" \notin DOMAIN h[i].event.user_data

====
